---- MODULE Spec2Model ----
(***************************************************************************)
(* The Playwright verification scripts of LifeBalance (src/verification,   *)
(* src/tests) as one state machine.  Each script is a straight-line        *)
(* program of browser calls with at most one try/except/finally; a         *)
(* program is a table from the SOURCE LINE of a call to an instruction,    *)
(* and the program counter pc is a source line.  The browser and the       *)
(* application under test are the environment: every navigation, wait,     *)
(* interaction and screenshot call either succeeds or raises.              *)
(***************************************************************************)
EXTENDS Naturals, Sequences, FiniteSets, TLC

VARIABLES
    script,   \* the script this run executes
    pc,       \* source line of the next call; 0 once the entry point was left
    result,   \* "running", "returned" (normal return) or "raised"
    exc,      \* exception in flight: the line that raised it, 0 if none
    e,        \* exception bound by "except Exception as e": its line, 0 if none
    browser,  \* "none", "open" or "closed"
    closes,   \* number of browser.close() calls of this run
    page,     \* TRUE once the page object exists
    url,      \* page.url
    sinks,    \* events a handler is attached for with page.on
    trace,    \* the calls made in this run, in program order
    fs,       \* screenshot path -> script that wrote the file last, or "none"
    runs,     \* number of runs started so far
    emitted,  \* console and pageerror events the page emitted in this run
    recorded  \* those of them a page.on handler printed

vars == <<script, pc, result, exc, e, browser, closes, page, url, sinks, trace, fs, runs,
         emitted, recorded>>

\* Number of script runs one behaviour chains on the same output directory.
MaxRuns == 2

\* Number of console / pageerror events the page emits in one run.
MaxEvents == 2

Scripts == {"verify_transactions", "verify_analytics", "verify_header",
            "verify_habits", "verify_bypass", "verify_bypass_debug",
            "verify_export", "verify_toast", "verify_shopping_list",
            "verify_toolbar", "verify_settings", "verify_test_cards",
            "verify_member_management"}

(***************************************************************************)
(* Instructions.  next: line of the call that follows on success (0: the   *)
(* entry point returns).  alt: line that follows when a tested condition   *)
(* is false.  exc: line control moves to when the call raises (0: no       *)
(* enclosing try, the exception leaves the entry point).  catch: TRUE      *)
(* when exc is the body of an "except Exception" clause, which ends the    *)
(* exception; FALSE when it is a finally block, which runs with the        *)
(* exception still in flight.  fin: the call is the last of a finally      *)
(* block, after which an exception in flight propagates.                   *)
(***************************************************************************)
Ins(op, arg, next, x, catch) ==
    [op |-> op, arg |-> arg, next |-> next, alt |-> next,
     exc |-> x, catch |-> catch, fin |-> FALSE]

Br(op, arg, next, alt, x, catch) ==
    [op |-> op, arg |-> arg, next |-> next, alt |-> alt,
     exc |-> x, catch |-> catch, fin |-> FALSE]

Fin(op, arg, next) ==
    [op |-> op, arg |-> arg, next |-> next, alt |-> next,
     exc |-> 0, catch |-> FALSE, fin |-> TRUE]

LoginUrl == "http://localhost:3000/#/login"

\* verify_transactions with the else of line 26 lost: the href click of
\* line 29 follows the text click too.
verify_transactions_no_else ==
       4 :> Ins("launch", "chromium", 6, 0, FALSE)
    @@ 6 :> Ins("new_page", "context", 9, 0, FALSE)
    @@ 9 :> Ins("on", "console", 10, 0, FALSE)
    @@ 10 :> Ins("on", "pageerror", 13, 0, FALSE)
    @@ 13 :> Ins("goto", "http://localhost:3000/#/login?test=true", 16, 40, TRUE)
    @@ 16 :> Ins("sleep", "wait_for_timeout(5000)", 18, 40, TRUE)
    @@ 18 :> Ins("shot", "verification/debug_console.png", 24, 40, TRUE)
    @@ 24 :> Br("query", "text=Budget", 25, 29, 40, TRUE)
    @@ 25 :> Ins("click", "text=Budget", 29, 40, TRUE)
    @@ 29 :> Ins("click", "a[href=/budget]", 32, 40, TRUE)
    @@ 32 :> Ins("wait", "button:has-text(History)", 33, 40, TRUE)
    @@ 33 :> Ins("click", "button:has-text(History)", 35, 40, TRUE)
    @@ 35 :> Ins("wait", "input[placeholder=Search merchant or amount...]", 36, 40, TRUE)
    @@ 36 :> Ins("shot", "verification/transaction_history.png", 42, 40, TRUE)
    @@ 40 :> Ins("shot", "verification/error_state.png", 42, 0, FALSE)
    @@ 42 :> Ins("close", "browser", 0, 0, FALSE)

verify_transactions ==
       4 :> Ins("launch", "chromium", 6, 0, FALSE)
    @@ 6 :> Ins("new_page", "context", 9, 0, FALSE)
    @@ 9 :> Ins("on", "console", 10, 0, FALSE)
    @@ 10 :> Ins("on", "pageerror", 13, 0, FALSE)
    @@ 13 :> Ins("goto", "http://localhost:3000/#/login?test=true", 16, 40, TRUE)
    @@ 16 :> Ins("sleep", "wait_for_timeout(5000)", 18, 40, TRUE)
    @@ 18 :> Ins("shot", "verification/debug_console.png", 24, 40, TRUE)
    @@ 24 :> Br("query", "text=Budget", 25, 29, 40, TRUE)
    @@ 25 :> Ins("click", "text=Budget", 32, 40, TRUE)
    @@ 29 :> Ins("click", "a[href=/budget]", 32, 40, TRUE)
    @@ 32 :> Ins("wait", "button:has-text(History)", 33, 40, TRUE)
    @@ 33 :> Ins("click", "button:has-text(History)", 35, 40, TRUE)
    @@ 35 :> Ins("wait", "input[placeholder=Search merchant or amount...]", 36, 40, TRUE)
    @@ 36 :> Ins("shot", "verification/transaction_history.png", 42, 40, TRUE)
    @@ 40 :> Ins("shot", "verification/error_state.png", 42, 0, FALSE)
    @@ 42 :> Ins("close", "browser", 0, 0, FALSE)

verify_analytics ==
       7 :> Ins("launch", "chromium", 9, 0, FALSE)
    @@ 9 :> Ins("new_page", "context", 13, 0, FALSE)
    @@ 13 :> Ins("goto", "http://localhost:3000/", 22, 0, FALSE)
    @@ 22 :> Ins("sleep", "wait_for_timeout(5000)", 25, 0, FALSE)
    @@ 25 :> Br("urlcheck", "/login", 49, 49, 0, FALSE)
    @@ 49 :> Br("query", "button.p-3.bg-white.text-brand-600", 51, 62, 66, TRUE)
    @@ 51 :> Ins("click", "button.p-3.bg-white.text-brand-600", 55, 66, TRUE)
    @@ 55 :> Ins("wait", "text=Analytics", 58, 66, TRUE)
    @@ 58 :> Ins("shot", "verification/analytics_modal.png", 68, 66, TRUE)
    @@ 62 :> Ins("shot", "verification/debug_dashboard.png", 68, 66, TRUE)
    @@ 66 :> Ins("shot", "verification/error.png", 68, 0, FALSE)
    @@ 68 :> Ins("close", "browser", 0, 0, FALSE)

verify_header ==
       7 :> Ins("launch", "chromium", 11, 0, FALSE)
    @@ 11 :> Ins("new_page", "iPhone 14 Pro", 16, 0, FALSE)
    @@ 16 :> Ins("goto", "http://localhost:3000", 23, 19, TRUE)
    @@ 19 :> Ins("goto", "http://localhost:5173", 23, 0, FALSE)
    @@ 23 :> Ins("wait", "header", 26, 0, FALSE)
    @@ 26 :> Ins("shot", "verification/header_padding.png", 28, 0, FALSE)
    @@ 28 :> Ins("close", "browser", 0, 0, FALSE)

\* verify_habits with the launch of line 7 moved inside the try of line 21.
verify_habits_launch_in_try ==
       7 :> Ins("launch", "chromium", 16, 35, TRUE)
    @@ 16 :> Ins("new_page", "browser", 19, 0, FALSE)
    @@ 19 :> Ins("set_viewport", "375x812", 22, 0, FALSE)
    @@ 22 :> Ins("goto", "http://localhost:3000/#/habits", 26, 35, TRUE)
    @@ 26 :> Ins("sleep", "time.sleep(5)", 29, 35, TRUE)
    @@ 29 :> Ins("shot", "verification/habits_mobile.png", 35, 35, TRUE)
    @@ 35 :> Fin("close", "browser", 0)

verify_habits ==
       7 :> Ins("launch", "chromium", 16, 0, FALSE)
    @@ 16 :> Ins("new_page", "browser", 19, 0, FALSE)
    @@ 19 :> Ins("set_viewport", "375x812", 22, 0, FALSE)
    @@ 22 :> Ins("goto", "http://localhost:3000/#/habits", 26, 35, TRUE)
    @@ 26 :> Ins("sleep", "time.sleep(5)", 29, 35, TRUE)
    @@ 29 :> Ins("shot", "verification/habits_mobile.png", 35, 35, TRUE)
    @@ 35 :> Fin("close", "browser", 0)

\* verify_bypass with the "raise e" of line 35 lost, as verify_bypass_debug
\* has it.
verify_bypass_swallow ==
       5 :> Ins("launch", "chromium", 8, 0, FALSE)
    @@ 8 :> Ins("new_page", "context", 13, 0, FALSE)
    @@ 13 :> Ins("goto", "http://localhost:3000/#/login?bypass=true", 21, 34, TRUE)
    @@ 21 :> Ins("wait", "text=TEST MODE ENABLED", 26, 34, TRUE)
    @@ 26 :> Ins("wait", "text=Safe to Spend", 29, 34, TRUE)
    @@ 29 :> Ins("shot", "verification/bypass_success.png", 37, 34, TRUE)
    @@ 34 :> Ins("shot", "verification/bypass_error.png", 37, 37, FALSE)
    @@ 35 :> Ins("raise", "e", 37, 37, FALSE)
    @@ 37 :> Fin("close", "browser", 0)

verify_bypass ==
       5 :> Ins("launch", "chromium", 8, 0, FALSE)
    @@ 8 :> Ins("new_page", "context", 13, 0, FALSE)
    @@ 13 :> Ins("goto", "http://localhost:3000/#/login?bypass=true", 21, 34, TRUE)
    @@ 21 :> Ins("wait", "text=TEST MODE ENABLED", 26, 34, TRUE)
    @@ 26 :> Ins("wait", "text=Safe to Spend", 29, 34, TRUE)
    @@ 29 :> Ins("shot", "verification/bypass_success.png", 37, 34, TRUE)
    @@ 34 :> Ins("shot", "verification/bypass_error.png", 35, 37, FALSE)
    @@ 35 :> Ins("raise", "e", 37, 37, FALSE)
    @@ 37 :> Fin("close", "browser", 0)

\* verify_bypass_debug with the page.on calls of lines 10-11 made after the
\* page.goto of line 15.
verify_bypass_debug_late_sinks ==
       5 :> Ins("launch", "chromium", 7, 0, FALSE)
    @@ 7 :> Ins("new_page", "context", 15, 0, FALSE)
    @@ 10 :> Ins("on", "console", 11, 0, FALSE)
    @@ 11 :> Ins("on", "pageerror", 20, 0, FALSE)
    @@ 15 :> Ins("goto", "http://localhost:3000/#/login?bypass=true", 10, 32, TRUE)
    @@ 20 :> Ins("sleep", "wait_for_timeout(5000)", 25, 32, TRUE)
    @@ 25 :> Ins("wait", "text=TEST MODE ENABLED", 28, 32, TRUE)
    @@ 28 :> Ins("shot", "verification/bypass_success.png", 34, 32, TRUE)
    @@ 32 :> Ins("shot", "verification/bypass_debug_error.png", 34, 34, FALSE)
    @@ 34 :> Fin("close", "browser", 0)

verify_bypass_debug ==
       5 :> Ins("launch", "chromium", 7, 0, FALSE)
    @@ 7 :> Ins("new_page", "context", 10, 0, FALSE)
    @@ 10 :> Ins("on", "console", 11, 0, FALSE)
    @@ 11 :> Ins("on", "pageerror", 15, 0, FALSE)
    @@ 15 :> Ins("goto", "http://localhost:3000/#/login?bypass=true", 20, 32, TRUE)
    @@ 20 :> Ins("sleep", "wait_for_timeout(5000)", 25, 32, TRUE)
    @@ 25 :> Ins("wait", "text=TEST MODE ENABLED", 28, 32, TRUE)
    @@ 28 :> Ins("shot", "verification/bypass_success.png", 34, 32, TRUE)
    @@ 32 :> Ins("shot", "verification/bypass_debug_error.png", 34, 34, FALSE)
    @@ 34 :> Fin("close", "browser", 0)

\* verify_export with the inner try/except of lines 41-44 lost: the capture
\* of line 42 is a bare call in the except clause.
verify_export_bare_capture ==
       6 :> Ins("launch", "chromium", 9, 0, FALSE)
    @@ 9 :> Ins("new_page", "context", 13, 0, FALSE)
    @@ 13 :> Ins("goto", "http://localhost:3000", 14, 42, TRUE)
    @@ 14 :> Ins("evaluate", "sessionStorage.setItem(LIFEBALANCE_TEST_MODE)", 17, 42, TRUE)
    @@ 17 :> Ins("click", "role=link[name=Budget]", 20, 42, TRUE)
    @@ 20 :> Ins("click", "role=button[name=History]", 29, 42, TRUE)
    @@ 29 :> Ins("wait", "role=button[name=Export]", 32, 42, TRUE)
    @@ 32 :> Ins("scroll", "role=button[name=Export]", 35, 42, TRUE)
    @@ 35 :> Ins("shot", "verification/verification.png", 46, 42, TRUE)
    @@ 42 :> Ins("shot", "verification/error_state.png", 46, 46, FALSE)
    @@ 46 :> Fin("close", "browser", 0)

verify_export ==
       6 :> Ins("launch", "chromium", 9, 0, FALSE)
    @@ 9 :> Ins("new_page", "context", 13, 0, FALSE)
    @@ 13 :> Ins("goto", "http://localhost:3000", 14, 42, TRUE)
    @@ 14 :> Ins("evaluate", "sessionStorage.setItem(LIFEBALANCE_TEST_MODE)", 17, 42, TRUE)
    @@ 17 :> Ins("click", "role=link[name=Budget]", 20, 42, TRUE)
    @@ 20 :> Ins("click", "role=button[name=History]", 29, 42, TRUE)
    @@ 29 :> Ins("wait", "role=button[name=Export]", 32, 42, TRUE)
    @@ 32 :> Ins("scroll", "role=button[name=Export]", 35, 42, TRUE)
    @@ 35 :> Ins("shot", "verification/verification.png", 46, 42, TRUE)
    @@ 42 :> Ins("shot", "verification/error_state.png", 46, 46, TRUE)
    @@ 46 :> Fin("close", "browser", 0)

verify_toast ==
       6 :> Ins("launch", "chromium", 14, 0, FALSE)
    @@ 14 :> Ins("new_page", "iPhone 14 Pro", 18, 0, FALSE)
    @@ 18 :> Ins("goto", "http://localhost:3000", 22, 63, TRUE)
    @@ 22 :> Ins("wait", "body", 37, 63, TRUE)
    @@ 37 :> Ins("sleep", "time.sleep(5)", 45, 63, TRUE)
    @@ 45 :> Br("query", "div[style*=safe-area-inset-top]", 48, 52, 63, TRUE)
    @@ 48 :> Ins("shot", "verification/toaster_verification.png", 59, 63, TRUE)
    @@ 52 :> Ins("inspect", "div[style]", 59, 63, TRUE)
    @@ 59 :> Ins("shot", "verification/general.png", 65, 63, TRUE)
    @@ 63 :> Ins("shot", "verification/error.png", 65, 65, FALSE)
    @@ 65 :> Fin("close", "browser", 0)

\* verify_shopping_list with a retry: a timeout of the wait of line 15 is
\* caught and the navigation of line 12 is done again.
verify_shopping_list_retry ==
       6 :> Ins("launch", "chromium", 8, 0, FALSE)
    @@ 8 :> Ins("new_page", "context", 12, 0, FALSE)
    @@ 12 :> Ins("goto", "http://localhost:3000/", 15, 37, TRUE)
    @@ 15 :> Ins("wait", "text=Sign in", 18, 12, TRUE)
    @@ 18 :> Ins("shot", "verification/login_screen.png", 39, 37, TRUE)
    @@ 37 :> Ins("shot", "verification/error.png", 39, 39, FALSE)
    @@ 39 :> Fin("close", "browser", 0)

verify_shopping_list ==
       6 :> Ins("launch", "chromium", 8, 0, FALSE)
    @@ 8 :> Ins("new_page", "context", 12, 0, FALSE)
    @@ 12 :> Ins("goto", "http://localhost:3000/", 15, 37, TRUE)
    @@ 15 :> Ins("wait", "text=Sign in", 18, 37, TRUE)
    @@ 18 :> Ins("shot", "verification/login_screen.png", 39, 37, TRUE)
    @@ 37 :> Ins("shot", "verification/error.png", 39, 39, FALSE)
    @@ 39 :> Fin("close", "browser", 0)

\* The entry point is the __main__ block (lines 44-53), which calls
\* verify_toolbar_accessibility (lines 4-41) inside its try.
verify_toolbar ==
       45 :> Ins("launch", "chromium", 46, 0, FALSE)
    @@ 46 :> Ins("new_page", "browser", 9, 0, FALSE)
    @@ 9 :> Ins("on", "console", 10, 51, TRUE)
    @@ 10 :> Ins("on", "pageerror", 14, 51, TRUE)
    @@ 14 :> Ins("goto", "http://localhost:3001/#/test-toolbar", 17, 51, TRUE)
    @@ 17 :> Ins("wait", "header", 22, 51, TRUE)
    @@ 22 :> Ins("wait", "button[aria-label=View Safe to Spend details]", 25, 51, TRUE)
    @@ 25 :> Ins("click", "button[aria-label=View Safe to Spend details]", 27, 51, TRUE)
    @@ 27 :> Ins("wait", "text=Safe to Spend Breakdown", 30, 51, TRUE)
    @@ 30 :> Ins("reload", "http://localhost:3001/#/test-toolbar", 34, 51, TRUE)
    @@ 34 :> Ins("wait", "button[aria-label=View Rewards and Points breakdown]", 37, 51, TRUE)
    @@ 37 :> Ins("focus", "button[aria-label=View Rewards and Points breakdown]", 40, 51, TRUE)
    @@ 40 :> Ins("shot", "verification/toolbar_accessibility.png", 53, 51, TRUE)
    @@ 51 :> Ins("shot", "verification/error_screenshot.png", 53, 53, FALSE)
    @@ 53 :> Fin("close", "browser", 0)

verify_settings ==
       8 :> Ins("launch", "chromium", 11, 0, FALSE)
    @@ 11 :> Ins("new_page", "context", 15, 0, FALSE)
    @@ 15 :> Ins("goto", "http://localhost:3000/#/settings", 18, 0, FALSE)
    @@ 18 :> Ins("sleep", "time.sleep(3)", 21, 0, FALSE)
    @@ 21 :> Ins("shot", "verification/settings_page.png", 23, 0, FALSE)
    @@ 23 :> Ins("close", "browser", 0, 0, FALSE)

verify_test_cards ==
       8 :> Ins("launch", "chromium", 11, 0, FALSE)
    @@ 11 :> Ins("new_page", "context", 14, 0, FALSE)
    @@ 14 :> Ins("goto", "http://localhost:3000/#/test-cards", 17, 0, FALSE)
    @@ 17 :> Ins("sleep", "time.sleep(2)", 20, 0, FALSE)
    @@ 20 :> Ins("shot", "verification/test_cards_page.png", 22, 0, FALSE)
    @@ 22 :> Ins("close", "browser", 0, 0, FALSE)

\* verify_member_management with the path of line 19 pasted at line 28.
verify_member_management_same_path ==
       8 :> Ins("launch", "chromium", 10, 0, FALSE)
    @@ 10 :> Ins("new_page", "context", 13, 0, FALSE)
    @@ 13 :> Ins("goto", "http://localhost:3000/#/", 15, 0, FALSE)
    @@ 15 :> Ins("sleep", "time.sleep(3)", 19, 0, FALSE)
    @@ 19 :> Ins("shot", "tests/initial_page.png", 23, 0, FALSE)
    @@ 23 :> Ins("goto", "http://localhost:3000/#/settings", 24, 0, FALSE)
    @@ 24 :> Ins("sleep", "time.sleep(3)", 28, 0, FALSE)
    @@ 28 :> Ins("shot", "tests/initial_page.png", 30, 0, FALSE)
    @@ 30 :> Ins("close", "browser", 0, 0, FALSE)

verify_member_management ==
       8 :> Ins("launch", "chromium", 10, 0, FALSE)
    @@ 10 :> Ins("new_page", "context", 13, 0, FALSE)
    @@ 13 :> Ins("goto", "http://localhost:3000/#/", 15, 0, FALSE)
    @@ 15 :> Ins("sleep", "time.sleep(3)", 19, 0, FALSE)
    @@ 19 :> Ins("shot", "tests/initial_page.png", 23, 0, FALSE)
    @@ 23 :> Ins("goto", "http://localhost:3000/#/settings", 24, 0, FALSE)
    @@ 24 :> Ins("sleep", "time.sleep(3)", 28, 0, FALSE)
    @@ 28 :> Ins("shot", "tests/settings_page.png", 30, 0, FALSE)
    @@ 30 :> Ins("close", "browser", 0, 0, FALSE)

Prog(s) ==
    CASE s = "verify_transactions" -> verify_transactions
      [] s = "verify_analytics" -> verify_analytics
      [] s = "verify_header" -> verify_header
      [] s = "verify_habits" -> verify_habits
      [] s = "verify_bypass" -> verify_bypass
      [] s = "verify_bypass_debug" -> verify_bypass_debug
      [] s = "verify_export" -> verify_export
      [] s = "verify_toast" -> verify_toast
      [] s = "verify_shopping_list" -> verify_shopping_list
      [] s = "verify_toolbar" -> verify_toolbar
      [] s = "verify_settings" -> verify_settings
      [] s = "verify_test_cards" -> verify_test_cards
      [] s = "verify_member_management" -> verify_member_management

\* The line of chromium.launch, the first call of every entry point.
Entry(s) ==
    CHOOSE l \in DOMAIN Prog(s) : Prog(s)[l].op = "launch"

\* Every path a script passes to page.screenshot.
ShotPaths(s) ==
    {Prog(s)[l].arg : l \in {k \in DOMAIN Prog(s) : Prog(s)[k].op = "shot"}}

Paths == UNION {ShotPaths(s) : s \in Scripts}

Cur == Prog(script)[pc]

Running == result = "running" /\ pc \in DOMAIN Prog(script)

Event(res) == [op |-> Cur.op, arg |-> Cur.arg, res |-> res, line |-> pc]

\* The call at pc returned: control moves to line n, or the entry point
\* returns when the call was its last.
Goto(n) ==
    /\ pc' = n
    /\ result' = IF n = 0 THEN "returned" ELSE result
    /\ UNCHANGED <<exc, e>>

\* The exception raised at line o reaches the call at pc: no enclosing try,
\* an except clause, or a finally block.
Raise(o) ==
    IF Cur.exc = 0
    THEN /\ pc' = 0
         /\ result' = "raised"
         /\ exc' = o
         /\ e' = e
    ELSE IF Cur.catch
    THEN /\ pc' = Cur.exc
         /\ result' = result
         /\ exc' = 0
         /\ e' = o
    ELSE /\ pc' = Cur.exc
         /\ result' = result
         /\ exc' = o
         /\ e' = e

\* What each kind of call can raise.
Failures(op) ==
    CASE op \in {"launch", "goto", "reload", "evaluate", "inspect", "shot"} -> {"error"}
      [] op = "wait" -> {"timeout"}
      [] op \in {"click", "focus", "scroll"} -> {"timeout", "error"}
      [] OTHER -> {}

\* p.chromium.launch(headless=True)
Launch ==
    /\ Running /\ Cur.op = "launch"
    /\ \E res \in {"ok"} \cup Failures("launch") :
        /\ trace' = Append(trace, Event(res))
        /\ IF res = "ok"
           THEN browser' = "open" /\ Goto(Cur.next)
           ELSE browser' = browser /\ Raise(pc)
    /\ UNCHANGED <<script, closes, page, url, sinks, fs, runs, emitted, recorded>>

\* browser.new_context(...) and context.new_page(), or browser.new_page()
NewPage ==
    /\ Running /\ Cur.op = "new_page"
    /\ page' = TRUE
    /\ url' = "about:blank"
    /\ trace' = Append(trace, Event("ok"))
    /\ Goto(Cur.next)
    /\ UNCHANGED <<script, browser, closes, sinks, fs, runs, emitted, recorded>>

\* page.set_viewport_size(...)
SetViewport ==
    /\ Running /\ Cur.op = "set_viewport"
    /\ trace' = Append(trace, Event("ok"))
    /\ Goto(Cur.next)
    /\ UNCHANGED <<script, browser, closes, page, url, sinks, fs, runs, emitted, recorded>>

\* page.on("console", ...) / page.on("pageerror", ...)
AttachSink ==
    /\ Running /\ Cur.op = "on"
    /\ sinks' = sinks \cup {Cur.arg}
    /\ trace' = Append(trace, Event("ok"))
    /\ Goto(Cur.next)
    /\ UNCHANGED <<script, browser, closes, page, url, fs, runs, emitted, recorded>>

\* page.goto(url) / page.reload(): on success the page shows the target or
\* the login route the application redirected to.
Navigate ==
    /\ Running /\ Cur.op \in {"goto", "reload"}
    /\ \E res \in {"ok"} \cup Failures("goto") :
        /\ trace' = Append(trace, Event(res))
        /\ IF res = "ok"
           THEN (\E u \in {Cur.arg, LoginUrl} : url' = u) /\ Goto(Cur.next)
           ELSE url' = url /\ Raise(pc)
    /\ UNCHANGED <<script, browser, closes, page, sinks, fs, runs, emitted, recorded>>

\* time.sleep(n) / page.wait_for_timeout(ms): a fixed pause, during which a
\* client-side redirect to the login route may land.
Sleep ==
    /\ Running /\ Cur.op = "sleep"
    /\ \E u \in {url, LoginUrl} : url' = u
    /\ trace' = Append(trace, Event("ok"))
    /\ Goto(Cur.next)
    /\ UNCHANGED <<script, browser, closes, page, sinks, fs, runs, emitted, recorded>>

\* expect(locator).to_be_visible(...) / locator.wait_for(...) /
\* page.wait_for_selector(...): returns once the condition holds, raises
\* when its timeout elapses first.
WaitFor ==
    /\ Running /\ Cur.op = "wait"
    /\ \E res \in {"ok"} \cup Failures("wait") :
        /\ trace' = Append(trace, Event(res))
        /\ IF res = "ok" THEN Goto(Cur.next) ELSE Raise(pc)
    /\ UNCHANGED <<script, browser, closes, page, url, sinks, fs, runs, emitted, recorded>>

\* if page.url.endswith("/login")
UrlCheck ==
    /\ Running /\ Cur.op = "urlcheck"
    /\ trace' = Append(trace, Event(IF url = LoginUrl THEN "true" ELSE "false"))
    /\ Goto(IF url = LoginUrl THEN Cur.next ELSE Cur.alt)
    /\ UNCHANGED <<script, browser, closes, page, url, sinks, fs, runs, emitted, recorded>>

\* if locator.count() > 0 / if locator.is_visible(): an immediate test of
\* the page, without waiting.
Query ==
    /\ Running /\ Cur.op = "query"
    /\ \E found \in BOOLEAN :
        /\ trace' = Append(trace, Event(IF found THEN "true" ELSE "false"))
        /\ Goto(IF found THEN Cur.next ELSE Cur.alt)
    /\ UNCHANGED <<script, browser, closes, page, url, sinks, fs, runs, emitted, recorded>>

\* locator.click() / page.click(selector) / locator.focus() /
\* locator.scroll_into_view_if_needed() / page.evaluate(js) /
\* locator.all() with get_attribute: "timeout" is the target never matching.
Interact ==
    /\ Running /\ Cur.op \in {"click", "focus", "scroll", "evaluate", "inspect"}
    /\ \E res \in {"ok"} \cup Failures(Cur.op) :
        /\ trace' = Append(trace, Event(res))
        /\ IF res = "ok" THEN Goto(Cur.next) ELSE Raise(pc)
    /\ UNCHANGED <<script, browser, closes, page, url, sinks, fs, runs, emitted, recorded>>

\* page.screenshot(path=...): writes the file, replacing one of that name.
Screenshot ==
    /\ Running /\ Cur.op = "shot"
    /\ \E res \in {"ok"} \cup Failures("shot") :
        /\ trace' = Append(trace, Event(res))
        /\ IF res = "ok"
           THEN fs' = [fs EXCEPT ![Cur.arg] = script] /\ Goto(Cur.next)
           ELSE fs' = fs /\ Raise(pc)
    /\ UNCHANGED <<script, browser, closes, page, url, sinks, runs, emitted, recorded>>

\* raise e
Reraise ==
    /\ Running /\ Cur.op = "raise"
    /\ trace' = Append(trace, Event("raise"))
    /\ Raise(e)
    /\ UNCHANGED <<script, browser, closes, page, url, sinks, fs, runs, emitted, recorded>>

\* browser.close(); as the last call of a finally block it is followed by
\* the propagation of the exception in flight, if there is one.
Close ==
    /\ Running /\ Cur.op = "close"
    /\ browser' = "closed"
    /\ closes' = closes + 1
    /\ trace' = Append(trace, Event("ok"))
    /\ IF Cur.fin /\ exc # 0
       THEN pc' = 0 /\ result' = "raised" /\ UNCHANGED <<exc, e>>
       ELSE Goto(Cur.next)
    /\ UNCHANGED <<script, page, url, sinks, fs, runs, emitted, recorded>>

\* The page emits a console message or an uncaught error while the session
\* is open, from the first navigation on (a blank page runs no script); the
\* lambda given to page.on for that kind of event, if any, prints it.
Emit ==
    /\ Running /\ browser = "open" /\ page
    /\ \E i \in DOMAIN trace : trace[i].op \in {"goto", "reload"}
    /\ emitted < MaxEvents
    /\ \E kind \in {"console", "pageerror"} :
        /\ emitted' = emitted + 1
        /\ recorded' = IF kind \in sinks THEN recorded + 1 ELSE recorded
    /\ UNCHANGED <<script, pc, result, exc, e, browser, closes, page, url, sinks,
                   trace, fs, runs>>

\* A started process: nothing launched yet, the output directory as it is.
Start(s) ==
    /\ script' = s
    /\ pc' = Entry(s)
    /\ result' = "running"
    /\ exc' = 0
    /\ e' = 0
    /\ browser' = "none"
    /\ closes' = 0
    /\ page' = FALSE
    /\ url' = "none"
    /\ sinks' = {}
    /\ trace' = <<>>
    /\ emitted' = 0
    /\ recorded' = 0

\* Another script is run (python verification/verify_x.py) after the
\* previous process ended; only the files on disk carry over.
NextRun ==
    /\ result # "running"
    /\ runs < MaxRuns
    /\ \E s \in Scripts : Start(s)
    /\ runs' = runs + 1
    /\ UNCHANGED fs

Init ==
    /\ script \in Scripts
    /\ pc = Entry(script)
    /\ result = "running"
    /\ exc = 0
    /\ e = 0
    /\ browser = "none"
    /\ closes = 0
    /\ page = FALSE
    /\ url = "none"
    /\ sinks = {}
    /\ trace = <<>>
    /\ fs = [p \in Paths |-> "none"]
    /\ runs = 1
    /\ emitted = 0
    /\ recorded = 0

Next ==
    \/ Launch
    \/ NewPage
    \/ SetViewport
    \/ AttachSink
    \/ Navigate
    \/ Sleep
    \/ WaitFor
    \/ UrlCheck
    \/ Query
    \/ Interact
    \/ Screenshot
    \/ Reraise
    \/ Close
    \/ Emit
    \/ NextRun

Spec == Init /\ [][Next]_vars

(***************************************************************************)
(* Vocabulary of the properties, all read off the trace of the run.        *)
(***************************************************************************)
Terminal == result # "running"

Idx == DOMAIN trace

IsFailure(ev) == ev.res \in {"timeout", "error"}

\* The calls that decide a run's outcome: navigation, waits, tests of the
\* page and interactions (not captures, not the session's own calls).
StepOps == {"goto", "reload", "sleep", "wait", "urlcheck", "query",
            "click", "focus", "scroll", "evaluate", "inspect"}

Wrote(i, path) ==
    trace[i].op = "shot" /\ trace[i].arg = path /\ trace[i].res = "ok"

Attempted(i, path) == trace[i].op = "shot" /\ trace[i].arg = path

TimedOutAt(l) == \E i \in Idx : trace[i].line = l /\ trace[i].res = "timeout"

ErrorPaths == {"verification/error.png", "verification/error_state.png",
               "verification/bypass_error.png", "verification/bypass_debug_error.png",
               "verification/error_screenshot.png"}

\* C1: once the browser was launched, a run that has ended has called
\* browser.close exactly once, and no run calls it twice.
C1_ReleaseExactlyOnce ==
    /\ closes <= 1
    /\ (Terminal /\ browser # "none") => closes = 1

\* C2: a run that ended after its page was created has captured a screenshot
\* after the call that decided its outcome, and before browser.close.
C2_CaptureBeforeRelease ==
    (Terminal /\ page) =>
        \E i \in Idx :
            /\ trace[i].op = "shot" /\ trace[i].res = "ok"
            /\ \A j \in Idx : trace[j].op \in StepOps => j < i
            /\ \A j \in Idx : trace[j].op = "close" => i < j

\* C3: a run in which a navigation, wait, interaction or capture raised
\* never returns normally: the exception leaves the entry point.
C3_ErrorsPropagate ==
    \A i \in Idx :
        (Terminal /\ IsFailure(trace[i]) /\ trace[i].op # "launch") =>
            result = "raised"

\* C4 as claimed: in verify_bypass, when the wait for "TEST MODE ENABLED"
\* times out, bypass_error.png is written, bypass_success.png is not, the
\* browser is closed after the capture and the timeout itself propagates.
C4_TimeoutCapturedThenRaised ==
    (script = "verify_bypass" /\ Terminal /\ TimedOutAt(21)) =>
        /\ \E i, j \in Idx :
              /\ i < j
              /\ Wrote(i, "verification/bypass_error.png")
              /\ trace[j].op = "close"
        /\ \A i \in Idx : ~Attempted(i, "verification/bypass_success.png")
        /\ result = "raised"
        /\ exc = 21

\* C4 as amended: in verify_bypass, once the wait for "TEST MODE ENABLED"
\* has timed out, bypass_success.png is never captured and the run never
\* returns normally; the capture of bypass_error.png is attempted before
\* browser.close, which is called once before an exception propagates; the
\* exception is the timeout when the capture succeeded (the file is then
\* written) and the capture's own exception when it did not.
C4_TimeoutCaptureAttemptedThenRaised ==
    (script = "verify_bypass" /\ TimedOutAt(21)) =>
        /\ \A i \in Idx : ~Attempted(i, "verification/bypass_success.png")
        /\ result # "returned"
        /\ \A j \in Idx : trace[j].op = "close" =>
              \E i \in Idx : i < j /\ Attempted(i, "verification/bypass_error.png")
        /\ result = "raised" =>
              /\ closes = 1 /\ browser = "closed"
              /\ \/ /\ exc = 21
                    /\ \E i \in Idx : Wrote(i, "verification/bypass_error.png")
                    /\ fs["verification/bypass_error.png"] = "verify_bypass"
                 \/ /\ exc = 34
                    /\ \A i \in Idx : ~Wrote(i, "verification/bypass_error.png")

\* C4 witness: the wait at line 21 timed out, the error capture succeeded
\* and the timeout has left the entry point.
C4_Witness ==
    /\ script = "verify_bypass" /\ TimedOutAt(21)
    /\ result = "raised" /\ exc = 21 /\ browser = "closed"

\* C5: bypass_success.png is written only after "TEST MODE ENABLED" and then
\* "Safe to Spend" were both seen visible in that run.
C5_SuccessNeedsBothMarkers ==
    \A i \in Idx :
        Wrote(i, "verification/bypass_success.png") =>
            \E j, k \in Idx :
                /\ j < k /\ k < i
                /\ trace[j].op = "wait" /\ trace[j].arg = "text=TEST MODE ENABLED"
                /\ trace[j].res = "ok"
                /\ trace[k].op = "wait" /\ trace[k].arg = "text=Safe to Spend"
                /\ trace[k].res = "ok"

\* C6: in verify_analytics, once the URL was found to end in "/login", no
\* selector is resolved, nothing is clicked and nothing raises.
C6_BlockedSkipsInteraction ==
    script = "verify_analytics" =>
        \A i \in Idx :
            (trace[i].op = "urlcheck" /\ trace[i].res = "true") =>
                /\ \A j \in Idx :
                      j > i => /\ trace[j].op \notin {"query", "click"}
                               /\ ~IsFailure(trace[j])
                /\ result # "raised"

\* C7 as claimed: in verify_export, when the wait for the Export button
\* times out, error_state.png is written, verification.png is not, and the
\* function returns without raising.
C7_NotFoundCaptured ==
    (script = "verify_export" /\ Terminal /\ TimedOutAt(29)) =>
        /\ \E i \in Idx : Wrote(i, "verification/error_state.png")
        /\ \A i \in Idx : ~Attempted(i, "verification/verification.png")
        /\ result = "returned"

\* C7 as amended: in verify_export, once the wait for the Export button has
\* timed out, verification.png is never captured and nothing ever leaves
\* the function as an exception; the capture of error_state.png is
\* attempted before browser.close, and the function returns after exactly
\* one close; error_state.png is written unless that capture itself raised.
C7_NotFoundCaptureAttempted ==
    (script = "verify_export" /\ TimedOutAt(29)) =>
        /\ \A i \in Idx : ~Attempted(i, "verification/verification.png")
        /\ result # "raised"
        /\ \A j \in Idx : trace[j].op = "close" =>
              \E i \in Idx : i < j /\ Attempted(i, "verification/error_state.png")
        /\ \A i \in Idx :
              (Attempted(i, "verification/error_state.png") /\ trace[i].res = "ok")
                  => fs["verification/error_state.png"] = "verify_export"
        /\ result = "returned" => closes = 1

\* C7 witness: the Export wait timed out, error_state.png was written and
\* the function has returned.
C7_Witness ==
    /\ script = "verify_export" /\ TimedOutAt(29) /\ result = "returned"
    /\ \E i \in Idx : Wrote(i, "verification/error_state.png")

\* C8: candidates are tried in order and the first match wins.  In
\* verify_transactions the text "Budget" locator is clicked exactly when it
\* matched, a[href="/budget"] is clicked only right after the text locator
\* matched nothing, and never both; in verify_header port 5173 is tried only
\* right after the navigation to port 3000 raised.
C8_ShortCircuit ==
    /\ script = "verify_transactions" =>
          /\ \A i \in Idx :
                /\ trace[i].line = 25 =>
                      i > 1 /\ trace[i-1].line = 24 /\ trace[i-1].res = "true"
                /\ trace[i].line = 29 =>
                      i > 1 /\ trace[i-1].line = 24 /\ trace[i-1].res = "false"
                /\ (trace[i].line = 24 /\ trace[i].res = "true" /\ i < Len(trace)) =>
                      /\ trace[i+1].line = 25
                      /\ trace[i+1].arg = trace[i].arg
          /\ ~\E i, j \in Idx : trace[i].line = 25 /\ trace[j].line = 29
    /\ script = "verify_header" =>
          \A i \in Idx :
              /\ trace[i].line = 19 =>
                    i > 1 /\ trace[i-1].line = 16 /\ IsFailure(trace[i-1])
              /\ (trace[i].line = 16 /\ trace[i].res = "ok") =>
                    \A j \in Idx : trace[j].line # 19

\* C8 witness: the text locator matched, its handle was clicked and the run
\* went on to the end.
C8_Witness ==
    /\ script = "verify_transactions" /\ Terminal
    /\ \E i \in Idx : trace[i].line = 25 /\ trace[i].res = "ok"

\* C9: in verify_analytics, verify_transactions and verify_toast, when every
\* candidate of the target matched nothing (and no other call raised), the
\* run returns normally, no error screenshot is attempted and a screenshot
\* is written after the failed resolution.
C9_NotFoundIsNotError ==
    LET missed(i) ==
            \/ /\ script = "verify_analytics"
               /\ trace[i].line = 49 /\ trace[i].res = "false"
            \/ /\ script = "verify_transactions"
               /\ trace[i].line = 29 /\ trace[i].res = "timeout"
               /\ trace[i-1].line = 24 /\ trace[i-1].res = "false"
            \/ /\ script = "verify_toast"
               /\ trace[i].line = 45 /\ trace[i].res = "false"
    IN  \A i \in Idx :
            (/\ Terminal
             /\ missed(i)
             /\ \A j \in Idx : (j # i) => ~IsFailure(trace[j])) =>
                /\ result = "returned"
                /\ \A j \in Idx : ~(trace[j].op = "shot" /\ trace[j].arg \in ErrorPaths)
                /\ \E j \in Idx : j > i /\ trace[j].op = "shot" /\ trace[j].res = "ok"

\* C10: a screenshot file, once written, is never written again by a
\* different script.
C10_NoOverwrite ==
    [][\A p \in Paths : fs[p] # "none" => fs'[p] = fs[p]]_vars

SuccessPaths == {"verification/toaster_verification.png", "verification/general.png",
                 "verification/transaction_history.png",
                 "verification/analytics_modal.png", "verification/bypass_success.png",
                 "verification/verification.png", "verification/login_screen.png",
                 "verification/toolbar_accessibility.png",
                 "verification/header_padding.png", "verification/habits_mobile.png"}

\* C11: no run writes both a success screenshot and an error screenshot.
C11_OneOutcome ==
    ~\E i, j \in Idx :
        /\ trace[i].op = "shot" /\ trace[i].res = "ok" /\ trace[i].arg \in SuccessPaths
        /\ trace[j].op = "shot" /\ trace[j].res = "ok" /\ trace[j].arg \in ErrorPaths

\* C12: after a bounded wait has timed out, the run makes no further
\* navigation, wait, test of the page or interaction: only screenshots, the
\* re-raise and browser.close follow.
C12_TimeoutIsTerminal ==
    \A i, j \in Idx :
        (trace[i].op = "wait" /\ trace[i].res = "timeout" /\ i < j) =>
            trace[j].op \in {"shot", "raise", "close"}

\* C12 witness: the wait for "Sign in" timed out, error.png was captured and
\* the browser closed.
C12_Witness ==
    /\ script = "verify_shopping_list" /\ TimedOutAt(15) /\ Terminal
    /\ \E i \in Idx : Wrote(i, "verification/error.png")
    /\ browser = "closed"

\* C13: every screenshot outside the error path follows, since the latest
\* navigation, a bounded condition wait that succeeded.
C13_WaitBeforeCapture ==
    \A i \in Idx :
        (trace[i].op = "shot" /\ trace[i].arg \notin ErrorPaths) =>
            \E j \in Idx :
                /\ j < i
                /\ trace[j].op = "wait" /\ trace[j].res = "ok"
                /\ \A k \in Idx : (j < k /\ k < i) => trace[k].op \notin {"goto", "reload"}

\* The step just taken was a page.screenshot call.
ShotStep ==
    /\ Len(trace') = Len(trace) + 1
    /\ trace'[Len(trace')].op = "shot"

\* C14: a page.screenshot call changes neither the page nor the session,
\* leaves every other file as it was, writes its own file when it succeeds,
\* and never reuses a path this run has already written.
C14_CaptureIsObservation ==
    [][ShotStep =>
          LET ev == trace'[Len(trace')] IN
          /\ url' = url /\ page' = page /\ sinks' = sinks
          /\ browser' = browser /\ closes' = closes
          /\ \A p \in Paths : p # ev.arg => fs'[p] = fs[p]
          /\ ev.res = "ok" => fs'[ev.arg] = script
          /\ \A i \in Idx : ~Wrote(i, ev.arg)
          /\ \A i \in Idx : (trace[i].op = "shot" /\ trace[i].res = "ok")
                               => fs'[trace[i].arg] = script]_vars

\* C14 witness: verify_member_management has written initial_page.png and
\* then settings_page.png, and both files are on disk.
C14_Witness ==
    /\ script = "verify_member_management"
    /\ \E i, j \in Idx :
          /\ i < j
          /\ Wrote(i, "tests/initial_page.png")
          /\ Wrote(j, "tests/settings_page.png")
    /\ fs["tests/initial_page.png"] = script
    /\ fs["tests/settings_page.png"] = script

\* C15: a run never blocks: either its next call can be made, or it has
\* ended, and then with the browser released.
C15_TerminatesReleased ==
    \/ Running
    \/ Terminal /\ browser # "open"

\* C16: a click or focus on a target follows, since the latest navigation,
\* a successful visibility wait or a positive test of that same target.
C16_ResolveBeforeInteract ==
    \A i \in Idx :
        trace[i].op \in {"click", "focus"} =>
            \E j \in Idx :
                /\ j < i
                /\ trace[j].arg = trace[i].arg
                /\ \/ trace[j].op = "wait" /\ trace[j].res = "ok"
                   \/ trace[j].op = "query" /\ trace[j].res = "true"
                /\ \A k \in Idx : (j < k /\ k < i) => trace[k].op \notin {"goto", "reload"}
                /\ \E k \in Idx :
                      k < j /\ trace[k].op \in {"goto", "reload"} /\ trace[k].res = "ok"

\* C18: when chromium.launch raises it was the only call of the run: no
\* second launch, no navigation, wait, interaction, screenshot or close
\* follows, and the exception leaves the entry point.
C18_LaunchFailureFatal ==
    /\ Cardinality({i \in Idx : trace[i].op = "launch"}) <= 1
    /\ \A i \in Idx :
          (trace[i].op = "launch" /\ IsFailure(trace[i])) =>
              /\ Len(trace) = 1
              /\ result = "raised"
              /\ exc = trace[i].line
              /\ browser = "none" /\ ~page

\* C18 witness: the launch raised and the run is over.
C18_Witness ==
    /\ Len(trace) = 1
    /\ trace[1].op = "launch" /\ trace[1].res = "error"
    /\ result = "raised"

\* C19: in verify_export, when the error_state.png capture of the except
\* clause raises, that exception is caught: none is in flight, the next
\* call is browser.close, and the function returns after exactly one close.
C19_CaptureFailureContained ==
    script = "verify_export" =>
        \A i \in Idx :
            (trace[i].line = 42 /\ IsFailure(trace[i])) =>
                /\ exc = 0
                /\ result # "raised"
                /\ i > 1 /\ IsFailure(trace[i-1])
                /\ i < Len(trace) => trace[i+1].op = "close" /\ Len(trace) = i + 1
                /\ Terminal => result = "returned" /\ closes = 1
                /\ ~Terminal => pc = 46 /\ closes = 0

\* C19 witness: a step of the try block raised, the error_state.png capture
\* raised too, and the function has returned with the browser closed.
C19_Witness ==
    /\ script = "verify_export" /\ result = "returned" /\ closes = 1
    /\ \E i \in Idx : trace[i].line = 42 /\ trace[i].res = "error"

LoggingScripts == {"verify_bypass_debug", "verify_toolbar", "verify_transactions"}

\* C17: in the scripts that log, the console and pageerror handlers are
\* attached before the first navigation and never detached, and every event
\* the page has emitted was recorded.
C17_LogComplete ==
    script \in LoggingScripts =>
        /\ recorded = emitted
        /\ \A i \in Idx :
              trace[i].op \in {"goto", "reload"} =>
                  \A kind \in {"console", "pageerror"} :
                      \E j \in Idx : j < i /\ trace[j].op = "on" /\ trace[j].arg = kind
        /\ \A i \in Idx : trace[i].op = "on" => trace[i].arg \in sinks

\* C17 witness: verify_bypass_debug ran into the timeout of its wait, the
\* page emitted events, all were recorded, and the browser is closed.
C17_Witness ==
    /\ script = "verify_bypass_debug" /\ TimedOutAt(25) /\ browser = "closed"
    /\ emitted > 0 /\ recorded = emitted

====
